---- MODULE Spec2Model ----
(***************************************************************************)
(* A model of wcsaxes/formatter_locator.py: the joint formatter/locator    *)
(* objects AngleFormatterLocator and ScalarFormatterLocator.               *)
(*                                                                         *)
(* Numbers.  A number of the program is written on a grid: an angle is an  *)
(* integer number of 10^-MaxPrecision arcsec, a scalar an integer number   *)
(* of 10^-MaxPrecision, and an astropy Quantity also carries its unit.     *)
(* The grid value g of a number with unit u stands for the Python float    *)
(* nearest to g / UnitSize(u), which is the float a literal or             *)
(* 1. / (10. ** precision) yields.  Whatever the source decides by float   *)
(* arithmetic is decided here by the same IEEE-754 double arithmetic,      *)
(* round to nearest, ties to even: the quotients under np.ceil and         *)
(* np.floor, the comparison with the base spacing, the remainder compared  *)
(* with 1e-10, and the unit conversions of astropy, which multiply by the  *)
(* quotient of the scales of the two units, the scale of the degree being  *)
(* the float np.pi / 180.  A double is [neg, man, exp], of value           *)
(* (-1)^neg * man * 2^exp, with man a 53-bit natural written in digits of  *)
(* RadixBits bits, least significant first, or empty for zero.             *)
(*                                                                         *)
(* Strings.  A format string is a tuple of one-character strings, so that  *)
(* the regular expressions, '.' in value, value.index('.') and             *)
(* value.count(':') are computed character by character.                   *)
(*                                                                         *)
(* Optional values.  None is the empty tuple and a value x that is present *)
(* is the 1-tuple <<x>>; an attribute that was never assigned is also the  *)
(* empty tuple, and reading it raises AttributeError.                      *)
(***************************************************************************)
EXTENDS Integers, Sequences, FiniteSets, TLC

VARIABLES obj, _values, _number, _spacing, _format,
          _decimal, _unit, _fields, _precision,
          call, raised, ret

vars == <<obj, _values, _number, _spacing, _format,
          _decimal, _unit, _fields, _precision, call, raised, ret>>

\* ------------------------------------------------------------------ bounds
\* The largest number of fractional-digit placeholders of a format input.
MaxPrecision == 2
\* The largest number of ticks of a locator call the model follows.
MaxTicks == 8

\* ----------------------------------------------------------------- helpers
None == <<>>
Some(x) == <<x>>

RECURSIVE Pow10(_)
Pow10(n) == IF n <= 0 THEN 1 ELSE 10 * Pow10(n - 1)

Abs(x) == IF x < 0 THEN -x ELSE x

MaxOf(S) == CHOOSE i \in S : \A j \in S : j <= i

\* a table's entry for the key, and the value itself for a key it lacks
Lookup(table, key, value) == IF key \in DOMAIN table THEN table[key] ELSE value

\* -------------------------------------------------------------- arithmetic
\* The operators of the arithmetic and of the float computations of the
\* program are applied by name, Apply("FDiv", <<x, y>>) for FDiv(x, y):
\* Apply is one recursive operator, so that TLC's coverage statistics hold
\* each definition once and not once for every path of calls that leads to it.
RECURSIVE Apply(_, _)

\* ----------------------------------------------------- naturals of any size
\* A natural is the sequence of its digits to the base Radix, least
\* significant first and without leading zeros; 0 is the empty sequence.
RadixBits == 14
Radix == 2^RadixBits

Digit(x, i) == IF i >= 1 /\ i <= Len(x) THEN x[i] ELSE 0
BNorm(x) == SubSeq(x, 1, MaxOf({0} \cup {i \in 1..Len(x) : x[i] # 0}))
\* to and from an integer 0 <= n < 2^31
BNat(n) == BNorm(<<n % Radix, (n \div Radix) % Radix, n \div (Radix * Radix)>>)
BInt(x) == Digit(x, 1) + Radix * Digit(x, 2) + Radix * Radix * Digit(x, 3)

\* -1, 0, 1 as x is less than, equal to, greater than y
BCmp(x, y) ==
    LET d == {i \in 1..MaxOf({Len(x), Len(y)}) : Digit(x, i) # Digit(y, i)}
    IN  IF d = {} THEN 0 ELSE IF Digit(x, MaxOf(d)) < Digit(y, MaxOf(d)) THEN -1 ELSE 1

\* the carry into digit i of a sum whose digit sums are s
Carry(s, i) ==
    IF \E j \in 1..(i - 1) : s[j] >= Radix /\ \A k \in (j + 1)..(i - 1) : s[k] = Radix - 1
    THEN 1 ELSE 0

BAdd(x, y) ==
    LET n == MaxOf({Len(x), Len(y)}) + 1
        s == [i \in 1..n |-> Digit(x, i) + Digit(y, i)]
    IN  BNorm([i \in 1..n |-> (s[i] + Carry(s, i)) % Radix])

\* the borrow from digit i of a difference whose digit differences are d
Borrow(d, i) ==
    IF \E j \in 1..(i - 1) : d[j] < 0 /\ \A k \in (j + 1)..(i - 1) : d[k] = 0
    THEN 1 ELSE 0

\* x - y for x >= y
BSub(x, y) ==
    LET d == [i \in 1..Len(x) |-> x[i] - Digit(y, i)]
    IN  BNorm([i \in 1..Len(x) |-> (d[i] - Borrow(d, i)) % Radix])

\* x * Radix^k
BShiftDigits(x, k) ==
    IF Len(x) = 0 THEN <<>> ELSE [i \in 1..(Len(x) + k) |-> IF i <= k THEN 0 ELSE x[i - k]]

\* x * c for a digit c
BMulDigit(x, c) ==
    Apply("BAdd", <<[i \in 1..Len(x) |-> (x[i] * c) % Radix],
                    [i \in 1..(Len(x) + 1) |-> (Digit(x, i - 1) * c) \div Radix]>>)

\* x * y for x of at most 4 digits, by columns
BMul(x, y) ==
    LET col == [k \in 1..(Len(y) + 3) |->
                   Digit(x, 1) * Digit(y, k) + Digit(x, 2) * Digit(y, k - 1)
                   + Digit(x, 3) * Digit(y, k - 2) + Digit(x, 4) * Digit(y, k - 3)]
        part(j) == [k \in 1..(Len(y) + 5) |->
                       IF k - j >= 1 /\ k - j <= Len(y) + 3
                       THEN (col[k - j] \div Radix^j) % Radix ELSE 0]
    IN  Apply("BAdd", <<Apply("BAdd", <<part(0), part(1)>>), part(2)>>)

\* x * 2^k and x \div 2^k
BShl(x, k) ==
    BShiftDigits(Apply("BMulDigit", <<x, 2^(k % RadixBits)>>), k \div RadixBits)
BShr(x, k) ==
    LET w == k \div RadixBits
        b == k % RadixBits
    IN  BNorm([i \in 1..(Len(x) - w) |->
                  (x[i + w] \div 2^b) + (Digit(x, i + w + 1) % 2^b) * 2^(RadixBits - b)])

\* the number of bits of a digit, of a natural
BitsOf(n) == Cardinality({b \in 0..(RadixBits - 1) : 2^b <= n})
BBits(x) == IF Len(x) = 0 THEN 0 ELSE RadixBits * (Len(x) - 1) + BitsOf(x[Len(x)])

\* The digit of the quotient that the remainder r1 yields in the long
\* division by d, given the product p of d and the trial digit: the trial
\* digit or at most 2 below it.
BDivDigit(d, r1, trial, p) ==
    IF BCmp(p, r1) <= 0 THEN trial
    ELSE IF BCmp(Apply("BSub", <<p, d>>), r1) <= 0 THEN trial - 1
    ELSE trial - 2

\* One step of the long division by d, whose leading digit is at least
\* Radix / 2: the next digit of the dividend joins the remainder st.r, and
\* the next digit of the quotient joins st.q.
BDivStep(digit, d, st) ==
    LET r1 == BNorm(<<digit>> \o st.r)
        top == Digit(r1, Len(d) + 1) * Radix + Digit(r1, Len(d))
        trial == IF top \div d[Len(d)] > Radix - 1 THEN Radix - 1 ELSE top \div d[Len(d)]
        c == BDivDigit(d, r1, trial, Apply("BMulDigit", <<d, trial>>))
    IN  [q |-> <<c>> \o st.q, r |-> Apply("BSub", <<r1, Apply("BMulDigit", <<d, c>>)>>)]

RECURSIVE BDivAt(_, _, _)
BDivAt(n, d, st) ==
    IF Len(st.q) = Len(n) THEN st
    ELSE BDivAt(n, d, BDivStep(n[Len(n) - Len(st.q)], d, st))

\* quotient and remainder of x * 2^n by y, for y > 0
BDivMod(x, y, n) ==
    LET s == RadixBits - BitsOf(y[Len(y)])
        d == BDivAt(Apply("BShl", <<x, n + s>>), Apply("BShl", <<y, s>>),
                    [q |-> <<>>, r |-> <<>>])
    IN  [q |-> BNorm(d.q), r |-> Apply("BShr", <<d.r, s>>)]

\* ----------------------------------------------------------------- doubles
\* the bits of the significand of a double
MantissaBits == 53

Zero == [neg |-> FALSE, man |-> <<>>, exp |-> 0]

\* n of more than MantissaBits bits, rounded to its leading MantissaBits
\* bits q: up when what it drops is more than half a unit of q, or is half
\* a unit and q is odd
RoundUp(n, q, k) ==
    LET half == BCmp(Apply("BShl", <<Apply("BSub", <<n, Apply("BShl", <<q, k>>)>>), 1>>),
                     Apply("BShl", <<<<1>>, k>>))
    IN  IF half > 0 \/ (half = 0 /\ q[1] % 2 = 1) THEN Apply("BAdd", <<q, <<1>>>>) ELSE q

\* the double of sign neg and significand m * 2^e, for m of MantissaBits bits
\* or one more
Packed(neg, m, e) ==
    IF BBits(m) = MantissaBits + 1
    THEN [neg |-> neg, man |-> Apply("BShr", <<m, 1>>), exp |-> e + 1]
    ELSE [neg |-> neg, man |-> m, exp |-> e]

\* the double nearest to (-1)^neg * n * 2^e, ties to the even significand
Nearest(neg, n, e) ==
    IF BBits(n) = 0 THEN Zero
    ELSE IF BBits(n) <= MantissaBits
    THEN [neg |-> neg, man |-> Apply("BShl", <<n, MantissaBits - BBits(n)>>),
          exp |-> e - (MantissaBits - BBits(n))]
    ELSE Packed(neg,
                RoundUp(n, Apply("BShr", <<n, BBits(n) - MantissaBits>>), BBits(n) - MantissaBits),
                e + BBits(n) - MantissaBits)

\* float(n) for an integer n
FInt(n) == Apply("Nearest", <<n < 0, BNat(IF n < 0 THEN -n ELSE n), 0>>)

\* abs(x)
FAbs(x) == [x EXCEPT !.neg = FALSE]


\* x / y for y # 0: the quotient of the significands to MantissaBits + 4
\* bits, with a last bit that says whether the division left a remainder
FDiv(x, y) ==
    IF y.man # <<>> /\ x.man = <<>> THEN Zero
    ELSE LET d == Apply("BDivMod", <<x.man, y.man, MantissaBits + 3>>)
         IN  Apply("Nearest",
                   <<x.neg # y.neg,
                     Apply("BAdd", <<Apply("BAdd", <<d.q, d.q>>),
                                     IF d.r = <<>> THEN <<>> ELSE <<1>>>>),
                     x.exp - y.exp - (MantissaBits + 4)>>)

\* x * y
FMul(x, y) ==
    IF x.man = <<>> \/ y.man = <<>> THEN Zero
    ELSE Apply("Nearest", <<x.neg # y.neg, Apply("BMul", <<x.man, y.man>>), x.exp + y.exp>>)

\* -1, 0, 1 as |x| is less than, equal to, greater than |y|
FCmpAbs(x, y) ==
    IF x.man = <<>> THEN (IF y.man = <<>> THEN 0 ELSE -1)
    ELSE IF y.man = <<>> THEN 1
    ELSE IF x.exp < y.exp THEN -1
    ELSE IF x.exp > y.exp THEN 1
    ELSE BCmp(x.man, y.man)

\* -1, 0, 1 as x is less than, equal to, greater than y
FCmp(x, y) ==
    IF x.man = <<>> /\ y.man = <<>> THEN 0
    ELSE IF x.neg /\ ~y.neg THEN -1
    ELSE IF ~x.neg /\ y.neg THEN 1
    ELSE IF x.neg THEN FCmpAbs(y, x)
    ELSE FCmpAbs(x, y)

\* x < y, x > y
FLess(x, y) == FCmp(x, y) < 0
FGreater(x, y) == FCmp(x, y) > 0

\* (-1)^neg * (a - b) * 2^e for naturals a and b
Difference(neg, a, b, e) ==
    IF BCmp(a, b) = 0 THEN Zero
    ELSE IF BCmp(a, b) > 0 THEN Apply("Nearest", <<neg, Apply("BSub", <<a, b>>), e>>)
    ELSE Apply("Nearest", <<~neg, Apply("BSub", <<b, a>>), e>>)

\* x - y for x and y the significands a and b at the exponent e
Aligned(x, y, a, b, e) ==
    IF x.neg # y.neg THEN Apply("Nearest", <<x.neg, Apply("BAdd", <<a, b>>), e>>)
    ELSE Difference(x.neg, a, b, e)

\* x - y
FSub(x, y) ==
    IF y.man = <<>> THEN x
    ELSE IF x.man = <<>> THEN [y EXCEPT !.neg = ~y.neg]
    ELSE IF x.exp < y.exp
    THEN Aligned(x, y, x.man, Apply("BShl", <<y.man, y.exp - x.exp>>), x.exp)
    ELSE Aligned(x, y, Apply("BShl", <<x.man, x.exp - y.exp>>), y.man, y.exp)

\* x % y for x >= 0 and y > 0: the remainder of a float division is exact
FMod(x, y) ==
    IF y.man # <<>> /\ FCmpAbs(x, y) < 0 THEN x
    ELSE Apply("Nearest", <<FALSE, Apply("BDivMod", <<x.man, y.man, x.exp - y.exp>>).r, y.exp>>)

\* |x| = n + a fraction, more telling that the fraction is not 0
Whole(x) ==
    IF x.man = <<>> THEN [n |-> 0, more |-> FALSE]
    ELSE IF x.exp >= 0 THEN [n |-> BInt(Apply("BShl", <<x.man, x.exp>>)), more |-> FALSE]
    ELSE [n |-> BInt(Apply("BShr", <<x.man, -x.exp>>)),
          more |-> Apply("BShl", <<Apply("BShr", <<x.man, -x.exp>>), -x.exp>>) # x.man]

\* np.floor(x), np.ceil(x) for x of the whole part w
FloorOf(x, w) ==
    IF x.neg /\ w.more THEN -w.n - 1
    ELSE IF x.neg THEN -w.n
    ELSE w.n
CeilOf(x, w) ==
    IF x.neg THEN -w.n
    ELSE IF w.more THEN w.n + 1
    ELSE w.n

\* np.round(x), which rounds halves to even, for x of the whole part n and
\* the fraction that compares with 0.5 as half says
RoundOf(x, n, half) ==
    IF half > 0 \/ (half = 0 /\ n % 2 = 1)
    THEN (IF x.neg THEN -(n + 1) ELSE n + 1)
    ELSE (IF x.neg THEN -n ELSE n)
FRound(x) ==
    LET n == Apply("Whole", <<x>>).n
    IN  RoundOf(x, n, FCmp(Apply("FSub", <<FAbs(x), Apply("FInt", <<n>>)>>),
                           Apply("Float", <<1, 2>>)))

\* the float nearest to n / d, for integers n and d > 0
Float(n, d) == Apply("FDiv", <<Apply("FInt", <<n>>), Apply("FInt", <<d>>)>>)

\* np.ceil(x / y) and np.floor(x / y)
Ceil(x, y) == CeilOf(Apply("FDiv", <<x, y>>), Apply("Whole", <<Apply("FDiv", <<x, y>>)>>))
Floor(x, y) == FloorOf(Apply("FDiv", <<x, y>>), Apply("Whole", <<Apply("FDiv", <<x, y>>)>>))

\* ------------------------------------------------------------------- units
Arcsec == Pow10(MaxPrecision)
Arcmin == 60 * Arcsec
Degree == 60 * Arcmin
HourAngle == 15 * Degree
\* the scalar 1.0
One == Pow10(MaxPrecision)

UnitSize(unit) ==
    CASE unit = "degree" -> Degree
      [] unit = "hourangle" -> HourAngle
      [] unit = "arcmin" -> Arcmin
      [] unit = "arcsec" -> Arcsec
      [] unit = "none" -> One

\* A number handed to the program or held by it is [angle, value, unit]: an
\* astropy Quantity with a unit of angle, or a bare float, whose unit is
\* "none"; value is its size on the grid.
Quantity(value, unit) == [angle |-> TRUE, value |-> value, unit |-> unit]
Bare(value) == [angle |-> FALSE, value |-> value, unit |-> "none"]

\* the float a number holds, counted in its unit
QValue(q) == Apply("Float", <<q.value, UnitSize(q.unit)>>)

\* the float np.pi / 180., the scale astropy gives the degree
DegreeScale == [neg |-> FALSE, man |-> <<7481, 2378, 13418, 1143>>, exp |-> -58]

\* the scale of a unit of angle: astropy defines hourangle as 15. degrees,
\* arcmin as 1. / 60. degrees and arcsec as 1. / 3600. degrees
UnitScale(unit) ==
    CASE unit = "degree" -> DegreeScale
      [] unit = "hourangle" -> Apply("FMul", <<Apply("FInt", <<15>>), DegreeScale>>)
      [] unit = "arcmin" -> Apply("FMul", <<Apply("Float", <<1, 60>>), DegreeScale>>)
      [] unit = "arcsec" -> Apply("FMul", <<Apply("Float", <<1, 3600>>), DegreeScale>>)

\* astropy converts the float x from one unit to another by multiplying it
\* with the quotient of the scales of the units
ConvertTo(x, from, to) ==
    IF from = to THEN x
    ELSE Apply("FMul", <<x, Apply("FDiv", <<UnitScale(from), UnitScale(to)>>)>>)

\* q.to(unit).value
QTo(q, unit) == Apply("ConvertTo", <<Apply("QValue", <<q>>), q.unit, unit>>)

\* the float 1e-10
Tolerance ==
    Apply("FDiv", <<Apply("FInt", <<1>>),
                    Apply("FMul", <<Apply("FInt", <<100000>>), Apply("FInt", <<100000>>)>>)>>)


\* ----------------------------------------------------------------- strings
NL == "\n"

Repeat(c, n) == [i \in 1..n |-> c]

\* '.' in value, value.count(':')
Contains(v, c) == \E i \in 1..Len(v) : v[i] = c
Count(v, c) == Cardinality({i \in 1..Len(v) : v[i] = c})
\* value.index('.'), counted from 0
Index(v, c) == (CHOOSE i \in 1..Len(v) : v[i] = c /\ \A j \in 1..(i - 1) : v[j] # c) - 1

\* '$' also matches just before a newline that ends the string
BeforeEnd(v) == IF Len(v) > 0 /\ v[Len(v)] = NL THEN SubSeq(v, 1, Len(v) - 1) ELSE v

\* ^LL(:mm(:ss(.(s)+)?)?)?$ for the lead character L; '.' is any character
\* but a newline
SexagesimalMatch(lead, v) ==
    LET w == BeforeEnd(v)
        f1 == <<lead, lead>>
        f2 == f1 \o <<":", "m", "m">>
        f3 == f2 \o <<":", "s", "s">>
    IN  \/ w = f1
        \/ w = f2
        \/ w = f3
        \/ /\ Len(w) >= 10
           /\ SubSeq(w, 1, 8) = f3
           /\ w[9] # NL
           /\ \A i \in 10..Len(w) : w[i] = "s"

\* ^c(.(c)+)?$ for the character c
DecimalMatch(c, v) ==
    LET w == BeforeEnd(v)
    IN  \/ w = <<c>>
        \/ /\ Len(w) >= 3
           /\ w[1] = c
           /\ w[2] # NL
           /\ \A i \in 3..Len(w) : w[i] = c

DMS_RE(v) == SexagesimalMatch("d", v)
HMS_RE(v) == SexagesimalMatch("h", v)
DDEC_RE(v) == DecimalMatch("d", v)
DMIN_RE(v) == DecimalMatch("m", v)
DSEC_RE(v) == DecimalMatch("s", v)
SCAL_RE(v) == DecimalMatch("x", v)

\* ------------------------------------------------------------------ inputs
Kinds == {"angle", "scalar"}

\* the size of 1 degree, or of the scalar 1.0
Unit(kind) == IF kind = "angle" THEN Degree ELSE One

ValuesInputs(kind) == {None, Some(<<>>), Some(<<Unit(kind), 2 * Unit(kind)>>)}

NumberInputs == {None, Some(1), Some(5)}

\* 0.5, 2 and 2.4 degrees, 1.5 arcmin and 1 hourangle as Quantities, and the
\* bare number 1.0; 0.1, 0.5, 2 and 2.4 as scalars
SpacingInputs(kind) ==
    IF kind = "angle"
    THEN {None, Some(Bare(Degree)), Some(Quantity((3 * Arcmin) \div 2, "arcmin")),
          Some(Quantity(HourAngle, "hourangle"))}
         \cup {Some(Quantity(g, "degree")) : g \in {Degree \div 2, 2 * Degree, (12 * Degree) \div 5}}
    ELSE {None}
         \cup {Some(Bare(g)) : g \in {One \div 10, One \div 2, 2 * One, (12 * One) \div 5}}

Fraction(head, c) == {head \o <<".">> \o Repeat(c, n) : n \in 1..MaxPrecision}

DMS == <<"d", "d", ":", "m", "m", ":", "s", "s">>
HMS == <<"h", "h", ":", "m", "m", ":", "s", "s">>

AngleFormats ==
    {<<"d", "d">>, SubSeq(DMS, 1, 5), DMS, <<"h", "h">>, SubSeq(HMS, 1, 5),
     <<"d">>, <<"m">>, <<"s">>}
    \cup Fraction(DMS, "s") \cup Fraction(<<"d">>, "d") \cup Fraction(<<"s">>, "s")
    \cup {<<"d", "d", "d">>, <<"d", "x", "d">>, DMS \o <<":", "s">>,
          <<"d", "d", NL>>, <<>>, <<"x">>}

ScalarFormats ==
    {<<"x">>} \cup Fraction(<<"x">>, "x")
    \cup {<<"x", "x", "x">>, <<"x", ",", "x">>, <<"x", NL>>, <<>>, <<"d">>}

Formats(kind) == IF kind = "angle" THEN AngleFormats ELSE ScalarFormats

FormatInputs(kind) == {None} \cup {Some(v) : v \in Formats(kind)}

\* ranges [value_min, value_max] at the scale u, as 0 to 3, -2 to 1.5,
\* 5.2 to 5.8, 1.5 to 1.7 and, reversed, 3 to 1
RangesAt(u) == {<<0, 3 * u>>, <<-2 * u, (3 * u) \div 2>>,
                <<(26 * u) \div 5, (29 * u) \div 5>>,
                <<(3 * u) \div 2, (17 * u) \div 10>>, <<3 * u, u>>}

RangeInputs(kind) ==
    IF kind = "angle"
    THEN UNION {RangesAt(u) : u \in {Arcsec \div 10, Arcmin, Degree}}
    ELSE UNION {RangesAt(u) : u \in {One \div 10, One}}

\* ------------------------------------------------- the object as a record
\* The attributes of one object.  A call returns the attributes it leaves
\* behind and the exception it raised ("none" when it returned).
Ok(self) == [self |-> self, raised |-> "none"]
Raise(self, e) == [self |-> self, raised |-> e]

\* the attributes before __init__ has assigned any
Blank == [_values |-> None, _number |-> None, _spacing |-> None, _format |-> None,
          _decimal |-> None, _unit |-> None, _fields |-> None, _precision |-> None]

\* ------------------------------------------------ BaseFormatterLocator
values_setter(self, values) ==
    [self EXCEPT !._number = None, !._spacing = None, !._values = values]

number_setter_keeps_spacing(self, number) ==
    [self EXCEPT !._number = number, !._values = None]

number_setter(self, number) ==
    [self EXCEPT !._number = number, !._spacing = None, !._values = None]

base_spacing_setter(self, spacing) ==
    [self EXCEPT !._number = None, !._spacing = spacing, !._values = None]


\* A spacing argument is None or <<q>> for a number q: a Quantity with units
\* of angle or a bare float.
angle_spacing_setter(self, spacing) ==
    IF spacing # None /\ ~spacing[1].angle
    THEN Raise(self, "TypeError")
    ELSE Ok([self EXCEPT !._number = None, !._spacing = spacing, !._values = None])

spacing_setter(kind, self, spacing) ==
    IF kind = "angle" THEN angle_spacing_setter(self, spacing)
    ELSE Ok(base_spacing_setter(self, spacing))

\* ------------------------------------------------------------ base_spacing
\* The exception that reading self.base_spacing raises, "none" when it returns.
angle_base_spacing_raises(self) ==
    IF self._decimal = None THEN "AttributeError"
    ELSE IF ~self._decimal[1] /\ self._fields[1] \notin {1, 2, 3} THEN "UnboundLocalError"
    ELSE "none"

\* a Quantity in the unit of the format, in arcsec or arcmin for the
\* sexagesimal formats
angle_base_spacing(self) ==
    LET precision == self._precision[1]
        spacing == IF self._decimal[1]
                   THEN Quantity(UnitSize(self._unit[1]) \div Pow10(precision), self._unit[1])
                   ELSE IF self._fields[1] = 1 THEN Quantity(Degree, "degree")
                   ELSE IF self._fields[1] = 2 THEN Quantity(Arcmin, "arcmin")
                   ELSE IF precision = 0 THEN Quantity(Arcsec, "arcsec")
                   ELSE Quantity(Arcsec \div Pow10(precision), "arcsec")
    IN  IF self._unit[1] = "hourangle"
        THEN [spacing EXCEPT !.value = spacing.value * 15]
        ELSE spacing

scalar_base_spacing_raises(self) ==
    IF self._precision = None THEN "AttributeError" ELSE "none"

scalar_base_spacing(self) == Bare(One \div Pow10(self._precision[1]))

base_spacing_raises(kind, self) ==
    IF kind = "angle" THEN angle_base_spacing_raises(self)
    ELSE scalar_base_spacing_raises(self)

base_spacing(kind, self) ==
    IF kind = "angle" THEN angle_base_spacing(self) ELSE scalar_base_spacing(self)

\* ----------------------------------------------------------- format setter
\* len(value) - value.index('.') - 1, or 0 without a '.'
FormatPrecision(v) == IF Contains(v, ".") THEN Len(v) - Index(v, ".") - 1 ELSE 0

\* the fields of a sexagesimal format
FormatFields(v) == IF Contains(v, ".") THEN 3 ELSE Count(v, ":") + 1

\* the branches of the angle format setter on the string v: the descriptor
\* they assign, or ValueError
angle_format_parse(s0, v) ==
    LET sexagesimal(unit) == [s0 EXCEPT !._decimal = Some(FALSE),
                                        !._unit = Some(unit),
                                        !._precision = Some(FormatPrecision(v)),
                                        !._fields = Some(FormatFields(v))]
        decimal(unit) == [s0 EXCEPT !._decimal = Some(TRUE),
                                    !._unit = Some(unit),
                                    !._fields = Some(1),
                                    !._precision = Some(FormatPrecision(v))]
    IN  IF DMS_RE(v) THEN Ok(sexagesimal("degree"))
        ELSE IF HMS_RE(v) THEN Ok(sexagesimal("hourangle"))
        ELSE IF DDEC_RE(v) THEN Ok(decimal("degree"))
        ELSE IF DMIN_RE(v) THEN Ok(decimal("arcmin"))
        ELSE IF DSEC_RE(v) THEN Ok(decimal("arcsec"))
        ELSE Raise(s0, "ValueError")

\* the branch of the scalar format setter
scalar_format_parse(s0, v) ==
    IF SCAL_RE(v) THEN Ok([s0 EXCEPT !._precision = Some(FormatPrecision(v))])
    ELSE Raise(s0, "ValueError")

format_parse(kind, s0, v) ==
    IF kind = "angle" THEN angle_format_parse(s0, v) ELSE scalar_format_parse(s0, v)

\* whether the format setter of the variant takes one of its branches for v
Accepted(kind, v) ==
    IF kind = "angle"
    THEN DMS_RE(v) \/ HMS_RE(v) \/ DDEC_RE(v) \/ DMIN_RE(v) \/ DSEC_RE(v)
    ELSE SCAL_RE(v)

\* The float computations of the re-validation of a spacing s against the
\* base spacing.  astropy converts the right operand of a comparison and of
\* % to the unit of the left one, and the remainder has that unit.
\* self.spacing < self.base_spacing
angle_spacing_below(s, base) ==
    FLess(Apply("QValue", <<s>>), Apply("QTo", <<base, s.unit>>))
scalar_spacing_below(s, base) ==
    FLess(Apply("QValue", <<s>>), Apply("QValue", <<base>>))

\* (self.spacing % self.base_spacing) > 1e-10 * u.deg, and > 1e-10
angle_spacing_off(s, base) ==
    FGreater(Apply("FMod", <<Apply("QValue", <<s>>), Apply("QTo", <<base, s.unit>>)>>),
             Apply("ConvertTo", <<Apply("Tolerance", <<>>), "degree", s.unit>>))
scalar_spacing_off(s, base) ==
    FGreater(Apply("FMod", <<Apply("QValue", <<s>>), Apply("QValue", <<base>>)>>),
             Apply("Tolerance", <<>>))

\* self.base_spacing * np.round(self.spacing / self.spacing)
spacing_reset(s, base) ==
    [base EXCEPT !.value =
        base.value * Apply("FRound", <<Apply("FDiv", <<Apply("QValue", <<s>>),
                                                       Apply("QValue", <<s>>)>>)>>)]

\* the base spacings of the formats of FormatInputs, and the spacings a
\* format can meet: those of SpacingInputs the setter stores, and the base
\* spacings
KnownBases(kind) ==
    LET parsed == {format_parse(kind, Blank, v) : v \in Formats(kind)}
        based == {p \in parsed : p.raised = "none" /\ base_spacing_raises(kind, p.self) = "none"}
    IN  {base_spacing(kind, p.self) : p \in based}

KnownSpacings(kind) ==
    {s[1] : s \in {t \in SpacingInputs(kind) \ {None} : spacing_setter(kind, Blank, t).raised = "none"}}
    \cup KnownBases(kind)

SpacingKeys ==
    UNION {{<<kind, s, base>> : s \in KnownSpacings(kind), base \in KnownBases(kind)} :
              kind \in Kinds}

\* the three computations on the known spacings and bases, computed once
SpacingBelow ==
    [k \in SpacingKeys |-> IF k[1] = "angle" THEN angle_spacing_below(k[2], k[3])
                           ELSE scalar_spacing_below(k[2], k[3])]
SpacingOff ==
    [k \in SpacingKeys |-> IF k[1] = "angle" THEN angle_spacing_off(k[2], k[3])
                           ELSE scalar_spacing_off(k[2], k[3])]
SpacingReset == [k \in SpacingKeys |-> spacing_reset(k[2], k[3])]

\* the three computations of the variant kind, looked up where they are known
spacing_below(kind, s, base) ==
    Lookup(SpacingBelow, <<kind, s, base>>,
           IF kind = "angle" THEN angle_spacing_below(s, base) ELSE scalar_spacing_below(s, base))
spacing_off(kind, s, base) ==
    Lookup(SpacingOff, <<kind, s, base>>,
           IF kind = "angle" THEN angle_spacing_off(s, base) ELSE scalar_spacing_off(s, base))
spacing_rounded(kind, s, base) ==
    Lookup(SpacingReset, <<kind, s, base>>, spacing_reset(s, base))

\* The re-validation of an explicit spacing against the new format.
angle_format_revalidate(self) ==
    IF self._spacing = None THEN Ok(self)
    ELSE IF angle_base_spacing_raises(self) # "none"
    THEN Raise(self, angle_base_spacing_raises(self))
    ELSE LET base == angle_base_spacing(self)
             below(s) == Apply("spacing_below", <<"angle", s, base>>)
             off(s) == Apply("spacing_off", <<"angle", s, base>>)
             reset(s) == Apply("spacing_rounded", <<"angle", s, base>>)
             s1 == IF below(self._spacing[1])
                   THEN angle_spacing_setter(self, Some(base)).self
                   ELSE self
             s2 == IF off(s1._spacing[1])
                   THEN angle_spacing_setter(s1, Some(reset(s1._spacing[1]))).self
                   ELSE s1
         IN  Ok(s2)

angle_format_setter(self, value) ==
    LET s0 == [self EXCEPT !._format = value]
        parsed == angle_format_parse(s0, value[1])
    IN  IF value = None THEN Ok(s0)
        ELSE IF parsed.raised # "none" THEN parsed
        ELSE angle_format_revalidate(parsed.self)

scalar_format_revalidate(self) ==
    IF self._spacing = None THEN Ok(self)
    ELSE LET base == scalar_base_spacing(self)
             below(s) == Apply("spacing_below", <<"scalar", s, base>>)
             off(s) == Apply("spacing_off", <<"scalar", s, base>>)
             reset(s) == Apply("spacing_rounded", <<"scalar", s, base>>)
             s1 == IF below(self._spacing[1])
                   THEN base_spacing_setter(self, Some(base))
                   ELSE self
             s2 == IF off(s1._spacing[1])
                   THEN base_spacing_setter(s1, Some(reset(s1._spacing[1])))
                   ELSE s1
         IN  Ok(s2)

scalar_format_setter(self, value) ==
    LET s0 == [self EXCEPT !._format = value]
        parsed == scalar_format_parse(s0, value[1])
    IN  IF value = None THEN Ok(s0)
        ELSE IF parsed.raised # "none" THEN parsed
        ELSE scalar_format_revalidate(parsed.self)

format_setter(kind, self, value) ==
    IF kind = "angle" THEN angle_format_setter(self, value)
    ELSE scalar_format_setter(self, value)

\* ---------------------------------------------------------------- __init__
\* (values, number, spacing).count(None) < 2
too_many(values, number, spacing) ==
    Cardinality({i \in 1..3 : <<values, number, spacing>>[i] = None}) < 2

\* BaseFormatterLocator.__init__ on the attributes the subclass has prepared
base_init(kind, self, values, number, spacing, format) ==
    IF too_many(values, number, spacing) THEN Raise(self, "ValueError")
    ELSE LET r1 == IF values # None THEN Ok(values_setter(self, values))
                   ELSE IF number # None THEN Ok(number_setter(self, number))
                   ELSE IF spacing # None THEN spacing_setter(kind, self, spacing)
                   ELSE Ok(number_setter(self, Some(5)))
         IN  IF r1.raised # "none" THEN r1
             ELSE Apply("format_setter", <<kind, r1.self, format>>)

init(kind, values, number, spacing, format) ==
    IF kind = "angle"
    THEN base_init(kind, [Blank EXCEPT !._unit = Some("degree")], values, number, spacing, format)
    ELSE base_init(kind, Blank, values, number, spacing, format)

\* ------------------------------------------------- nice-spacing selectors
\* utils.select_step_degree, select_step_hour and select_step_scalar: each maps
\* the ideal spacing num / den (on the grid) to a clean spacing of its unit
\* system, here the smallest clean spacing that is at least the ideal one
\* (the largest clean spacing when the ideal one is above them all).
SubSteps == {m * Pow10(k) : m \in {1, 2, 5}, k \in 0..(MaxPrecision - 1)}

DegreeSteps ==
    SubSteps
    \cup {m * Arcsec : m \in {1, 2, 5, 10, 15, 30}}
    \cup {m * Arcmin : m \in {1, 2, 5, 10, 15, 30}}
    \cup {m * Degree : m \in {1, 2, 5, 10, 15, 30, 45, 90, 180, 360}}

HourSteps ==
    {15 * g : g \in SubSteps}
    \cup {15 * m * Arcsec : m \in {1, 2, 5, 10, 15, 30}}
    \cup {15 * m * Arcmin : m \in {1, 2, 5, 10, 15, 30}}
    \cup {m * HourAngle : m \in {1, 2, 3, 4, 6, 8, 12, 24}}

ScalarSteps == {m * Pow10(k) : m \in {1, 2, 5}, k \in 0..(2 * MaxPrecision)}

\* the smallest integer that is at least a / b, for b > 0
CeilDiv(a, b) == -((-a) \div b)

select_step(steps, num, den) ==
    LET above == {g \in steps : g >= CeilDiv(num, den)}
    IN  IF above = {} THEN CHOOSE g \in steps : \A h \in steps : h <= g
        ELSE CHOOSE g \in above : \A h \in above : g <= h

select_step_degree(num, den) == select_step(DegreeSteps, num, den)
select_step_hour(num, den) == select_step(HourSteps, num, den)
select_step_scalar(num, den) == select_step(ScalarSteps, num, den)

\* ----------------------------------------------------------------- locator
\* the spacing of the explicit-values mode: 1.1 arcsec, 1.1
values_spacing(kind) == IF kind = "angle" THEN (11 * Arcsec) \div 10 ELSE (11 * One) \div 10


\* The spacing the locator resolves outside explicit-values mode:
\* [raised, spacing, selector], spacing being a number and selector the
\* nice-spacing selector called.
Resolved(spacing, selector) == [raised |-> "none", spacing |-> spacing, selector |-> selector]
Unresolved(e) == [raised |-> e, spacing |-> Bare(0), selector |-> "none"]

\* the floats of the values of ValuesInputs and of RangeInputs and the float
\* 1.1, computed once
Floats ==
    [k \in {<<11, 10>>}
           \cup UNION {{<<r[i], Unit(kind)>> : r \in RangeInputs(kind), i \in 1..2} :
                          kind \in Kinds}
           \cup UNION {UNION {{<<v[1][i], Unit(kind)>> : i \in 1..Len(v[1])} :
                                 v \in ValuesInputs(kind) \ {None}} : kind \in Kinds}
       |-> Float(k[1], k[2])]

\* the float nearest to n / d, looked up where it is known
float_of(n, d) == Lookup(Floats, <<n, d>>, Float(n, d))

\* abs(float(value_max - value_min)) / self.number, for values counted in
\* units of the grid size one
ideal_spacing(value_min, value_max, number, one) ==
    Apply("FDiv", <<FAbs(Apply("FSub", <<Apply("float_of", <<value_max, one>>),
                                         Apply("float_of", <<value_min, one>>)>>)),
                    Apply("FInt", <<number>>)>>)

\* dv < self.base_spacing, for dv * u.degree and for the float dv
angle_ideal_below(value_min, value_max, number, base) ==
    FLess(ideal_spacing(value_min, value_max, number, Degree), Apply("QTo", <<base, "degree">>))
scalar_ideal_below(value_min, value_max, number, base) ==
    FLess(ideal_spacing(value_min, value_max, number, One), Apply("QValue", <<base>>))

\* dv < self.base_spacing on the ranges of RangeInputs and the desired counts of
\* NumberInputs and of the constructor's default, computed once
IdealBelow ==
    [k \in UNION {{<<kind, r[1], r[2], n, base>> :
                      r \in RangeInputs(kind), n \in {m[1] : m \in (NumberInputs \cup {Some(5)}) \ {None}}, base \in KnownBases(kind)} :
                     kind \in Kinds}
       |-> IF k[1] = "angle" THEN angle_ideal_below(k[2], k[3], k[4], k[5])
           ELSE scalar_ideal_below(k[2], k[3], k[4], k[5])]

\* dv < self.base_spacing of the variant kind, looked up where it is known
ideal_below(kind, value_min, value_max, number, base) ==
    Lookup(IdealBelow, <<kind, value_min, value_max, number, base>>,
           IF kind = "angle" THEN angle_ideal_below(value_min, value_max, number, base)
           ELSE scalar_ideal_below(value_min, value_max, number, base))

angle_resolve_spacing(self, value_min, value_max) ==
    IF self._spacing # None THEN Resolved(self._spacing[1], "none")
    ELSE IF self._number # None
    THEN LET num == Abs(value_max - value_min)
             den == self._number[1]
             base == angle_base_spacing(self)
         IN  IF self._format # None /\ angle_base_spacing_raises(self) # "none"
             THEN Unresolved(angle_base_spacing_raises(self))
             ELSE IF /\ self._format # None
                     /\ Apply("ideal_below", <<"angle", value_min, value_max, den, base>>)
             THEN Resolved(base, "none")
             ELSE IF self._unit[1] = "degree"
             THEN Resolved(Quantity(select_step_degree(num, den), "degree"), "degree")
             ELSE Resolved(Quantity(select_step_hour(num, den), "degree"), "hour")
    ELSE Unresolved("UnboundLocalError")

scalar_resolve_spacing(self, value_min, value_max) ==
    IF self._spacing # None THEN Resolved(self._spacing[1], "none")
    ELSE IF self._number # None
    THEN LET num == Abs(value_max - value_min)
             den == self._number[1]
             base == scalar_base_spacing(self)
         IN  IF self._format # None /\ scalar_base_spacing_raises(self) # "none"
             THEN Unresolved(scalar_base_spacing_raises(self))
             ELSE IF /\ self._format # None
                     /\ Apply("ideal_below", <<"scalar", value_min, value_max, den, base>>)
             THEN Resolved(base, "none")
             ELSE Resolved(Bare(select_step_scalar(num, den)), "scalar")
    ELSE Unresolved("UnboundLocalError")

\* spacing_deg, the float the locator divides by: a Quantity in degrees, a
\* scalar as it is
spacing_float(kind, spacing) ==
    IF kind = "angle" THEN Apply("QTo", <<spacing, "degree">>) ELSE Apply("QValue", <<spacing>>)

\* the spacings the selectors return on the ranges of RangeInputs
SelectedSpacings(kind) ==
    LET ideal == {<<Abs(r[2] - r[1]), n>> :
                    r \in RangeInputs(kind), n \in {m[1] : m \in (NumberInputs \cup {Some(5)}) \ {None}}}
    IN  IF kind = "angle"
        THEN {Quantity(select_step_degree(d[1], d[2]), "degree") : d \in ideal}
             \cup {Quantity(select_step_hour(d[1], d[2]), "degree") : d \in ideal}
        ELSE {Bare(select_step_scalar(d[1], d[2])) : d \in ideal}

LocatedSpacings(kind) == KnownSpacings(kind) \cup SelectedSpacings(kind)

\* spacing_deg on the spacings the locator can resolve, computed once
SpacingDeg ==
    [k \in UNION {{<<kind, s>> : s \in LocatedSpacings(kind)} : kind \in Kinds}
       |-> spacing_float(k[1], k[2])]

\* spacing_deg, looked up where it is known
spacing_deg(kind, spacing) ==
    Lookup(SpacingDeg, <<kind, spacing>>, spacing_float(kind, spacing))

\* np.ceil(value_min / spacing_deg) and np.floor(value_max / spacing_deg)
imin(kind, value_min, spacing) ==
    Ceil(Apply("float_of", <<value_min, Unit(kind)>>), Apply("spacing_deg", <<kind, spacing>>))
imax(kind, value_max, spacing) ==
    Floor(Apply("float_of", <<value_max, Unit(kind)>>), Apply("spacing_deg", <<kind, spacing>>))

\* imin and imax on the ranges of RangeInputs, computed once
IminTable ==
    [k \in UNION {{<<kind, r[1], s>> : r \in RangeInputs(kind), s \in LocatedSpacings(kind)} :
                     kind \in Kinds}
       |-> imin(k[1], k[2], k[3])]
ImaxTable ==
    [k \in UNION {{<<kind, r[2], s>> : r \in RangeInputs(kind), s \in LocatedSpacings(kind)} :
                     kind \in Kinds}
       |-> imax(k[1], k[2], k[3])]

\* the tick indices, looked up where they are known
first_tick(kind, value_min, spacing) ==
    Lookup(IminTable, <<kind, value_min, spacing>>, imin(kind, value_min, spacing))
last_tick(kind, value_max, spacing) ==
    Lookup(ImaxTable, <<kind, value_max, spacing>>, imax(kind, value_max, spacing))

\* i * spacing_deg, the float product that is the tick of index i
tick(kind, i, spacing) ==
    Apply("FMul", <<Apply("FInt", <<i>>), Apply("spacing_deg", <<kind, spacing>>)>>)

\* the ticks of the calls that return at most MaxTicks of them, computed once
TickTable ==
    [k \in UNION {UNION {LET lo == IminTable[<<kind, r[1], s>>]
                             hi == ImaxTable[<<kind, r[2], s>>]
                         IN  IF hi + 1 - lo <= MaxTicks
                             THEN {<<kind, i, s>> : i \in lo..hi}
                             ELSE {} :
                         r \in RangeInputs(kind), s \in LocatedSpacings(kind)} :
                     kind \in Kinds}
       |-> tick(k[1], k[2], k[3])]

\* the tick of index i, looked up where it is known
tick_value(kind, i, spacing) ==
    Lookup(TickTable, <<kind, i, spacing>>, tick(kind, i, spacing))

\* np.arange(imin, imax + 1, dtype=int) and its product with spacing_deg:
\* the indices and the ticks, which are floats
arange_ticks(kind, value_min, value_max, spacing) ==
    LET lo == Apply("first_tick", <<kind, value_min, spacing>>)
        hi == Apply("last_tick", <<kind, value_max, spacing>>)
    IN  [arange |-> [k \in 1..(hi + 1 - lo) |-> lo + k - 1],
         values |-> [k \in 1..(hi + 1 - lo) |->
                        Apply("tick_value", <<kind, lo + k - 1, spacing>>)]]

\* What a locator call returns: the exception raised, the tick values, which
\* are floats, and the spacing, on the grid and as the float spacing_deg;
\* with them the indices np.arange gave and the selector that was called.
Located(arange, values, spacing, step, selector) ==
    [raised |-> "none", arange |-> arange, values |-> values, spacing |-> Some(spacing),
     spacing_deg |-> Some(step), selector |-> selector, labels |-> <<>>]
NoReturn == [raised |-> "none", arange |-> <<>>, values |-> <<>>, spacing |-> None,
             spacing_deg |-> None, selector |-> "none", labels |-> <<>>]

resolve_spacing(kind, self, value_min, value_max) ==
    IF kind = "angle" THEN angle_resolve_spacing(self, value_min, value_max)
    ELSE scalar_resolve_spacing(self, value_min, value_max)

locator(kind, self, value_min, value_max) ==
    IF self._values # None
    THEN Located(<<>>,
                 [k \in 1..Len(self._values[1]) |->
                     Apply("float_of", <<self._values[1][k], Unit(kind)>>)],
                 values_spacing(kind), Apply("float_of", <<11, 10>>), "none")
    ELSE LET r == resolve_spacing(kind, self, value_min, value_max)
             a == arange_ticks(kind, value_min, value_max, r.spacing)
         IN  IF r.raised # "none" THEN [NoReturn EXCEPT !.raised = r.raised]
             ELSE Located(a.arange, a.values, r.spacing.value,
                          Apply("spacing_deg", <<kind, r.spacing>>), r.selector)

\* imax + 1 - imin, the length of the range np.arange is given, for a call
\* that reaches it
arange_length(kind, self, value_min, value_max) ==
    LET r == resolve_spacing(kind, self, value_min, value_max)
    IN  IF self._values # None \/ r.raised # "none" THEN 0
        ELSE Apply("last_tick", <<kind, value_max, r.spacing>>) + 1
             - Apply("first_tick", <<kind, value_min, r.spacing>>)

\* the operator of the name op on the arguments a
ApplyTo(op, a) ==
    CASE op = "BAdd" -> BAdd(a[1], a[2])
      [] op = "BSub" -> BSub(a[1], a[2])
      [] op = "BMulDigit" -> BMulDigit(a[1], a[2])
      [] op = "BShl" -> BShl(a[1], a[2])
      [] op = "BShr" -> BShr(a[1], a[2])
      [] op = "BMul" -> BMul(a[1], a[2])
      [] op = "BDivMod" -> BDivMod(a[1], a[2], a[3])
      [] op = "Nearest" -> Nearest(a[1], a[2], a[3])
      [] op = "FInt" -> FInt(a[1])
      [] op = "FDiv" -> FDiv(a[1], a[2])
      [] op = "FMul" -> FMul(a[1], a[2])
      [] op = "FSub" -> FSub(a[1], a[2])
      [] op = "FMod" -> FMod(a[1], a[2])
      [] op = "Whole" -> Whole(a[1])
      [] op = "FRound" -> FRound(a[1])
      [] op = "Float" -> Float(a[1], a[2])
      [] op = "QValue" -> QValue(a[1])
      [] op = "ConvertTo" -> ConvertTo(a[1], a[2], a[3])
      [] op = "QTo" -> QTo(a[1], a[2])
      [] op = "Tolerance" -> Tolerance
      [] op = "spacing_below" -> spacing_below(a[1], a[2], a[3])
      [] op = "spacing_off" -> spacing_off(a[1], a[2], a[3])
      [] op = "spacing_rounded" -> spacing_rounded(a[1], a[2], a[3])
      [] op = "ideal_below" -> ideal_below(a[1], a[2], a[3], a[4], a[5])
      [] op = "first_tick" -> first_tick(a[1], a[2], a[3])
      [] op = "last_tick" -> last_tick(a[1], a[2], a[3])
      [] op = "tick_value" -> tick_value(a[1], a[2], a[3])
      [] op = "spacing_deg" -> spacing_deg(a[1], a[2])
      [] op = "float_of" -> float_of(a[1], a[2])
      [] op = "format_setter" -> format_setter(a[1], a[2], a[3])
      [] op = "init" -> init(a[1], a[2], a[3], a[4], a[5])
      [] op = "locator" -> locator(a[1], a[2], a[3], a[4])
      [] op = "arange_length" -> arange_length(a[1], a[2], a[3], a[4])

\* The arguments are computed once, before the operator is applied.
Apply(op, a) == CHOOSE r \in {ApplyTo(op, t) : t \in {a}} : TRUE

\* --------------------------------------------------------------- formatter
\* -int(np.floor(np.log10(g / one))) for 0 < g <= one
RECURSIVE Digits(_, _)
Digits(g, one) == IF g >= one THEN 0 ELSE 1 + Digits(10 * g, one)

\* The descriptor the formatter renders with: [raised, decimal, unit, fields,
\* precision].
Descriptor(decimal, unit, fields, precision) ==
    [raised |-> "none", decimal |-> decimal, unit |-> unit,
     fields |-> fields, precision |-> precision]

angle_formatter_descriptor(self, spacing) ==
    IF self._format = None
    THEN IF spacing > Degree THEN Descriptor(FALSE, "degree", 1, 0)
         ELSE IF spacing > Arcmin THEN Descriptor(FALSE, "degree", 2, 0)
         ELSE IF spacing > Arcsec THEN Descriptor(FALSE, "degree", 3, 0)
         ELSE Descriptor(FALSE, "degree", 3, Digits(spacing, Arcsec))
    ELSE IF self._fields = None
    THEN [Descriptor(FALSE, "degree", 0, 0) EXCEPT !.raised = "AttributeError"]
    ELSE Descriptor(self._decimal[1], self._unit[1], self._fields[1], self._precision[1])

scalar_formatter_descriptor(self, spacing) ==
    IF self._format = None
    THEN IF spacing < One THEN Descriptor(TRUE, "scalar", 1, Digits(spacing, One))
         ELSE Descriptor(TRUE, "scalar", 1, 0)
    ELSE IF self._precision = None
    THEN [Descriptor(TRUE, "scalar", 1, 0) EXCEPT !.raised = "AttributeError"]
    ELSE Descriptor(TRUE, "scalar", 1, self._precision[1])

\* A label is the value together with the descriptor it is rendered with
\* (Angle.to_string and str.format do the rendering).
formatter(kind, self, values, spacing) ==
    IF Len(values) > 0
    THEN LET d == IF kind = "angle" THEN angle_formatter_descriptor(self, spacing)
                  ELSE scalar_formatter_descriptor(self, spacing)
         IN  IF d.raised # "none" THEN [raised |-> d.raised, labels |-> <<>>]
             ELSE [raised |-> "none",
                   labels |-> [k \in 1..Len(values) |->
                                  [value |-> values[k], decimal |-> d.decimal, unit |-> d.unit,
                                   fields |-> d.fields, precision |-> d.precision]]]
    ELSE [raised |-> "none", labels |-> <<>>]

\* ------------------------------------------------------------------- state
Self == [_values |-> _values, _number |-> _number, _spacing |-> _spacing,
         _format |-> _format, _decimal |-> _decimal, _unit |-> _unit,
         _fields |-> _fields, _precision |-> _precision]

Becomes(self) ==
    /\ _values' = self._values
    /\ _number' = self._number
    /\ _spacing' = self._spacing
    /\ _format' = self._format
    /\ _decimal' = self._decimal
    /\ _unit' = self._unit
    /\ _fields' = self._fields
    /\ _precision' = self._precision

\* the call made last: its name and its arguments
Call(op, values, number, spacing, format, value_min, value_max) ==
    [op |-> op, values |-> values, number |-> number, spacing |-> spacing,
     format |-> format, value_min |-> value_min, value_max |-> value_max]

NoCall == Call("none", None, None, None, None, 0, 0)

Init ==
    /\ obj = "none"
    /\ _values = None
    /\ _number = None
    /\ _spacing = None
    /\ _format = None
    /\ _decimal = None
    /\ _unit = None
    /\ _fields = None
    /\ _precision = None
    /\ call = NoCall
    /\ raised = "none"
    /\ ret = NoReturn

\* ----------------------------------------------------------------- actions
\* x = AngleFormatterLocator(...) or ScalarFormatterLocator(...): a
\* constructor that raises leaves no object.
Construct(kind, values, number, spacing, format) ==
    /\ obj = "none"
    /\ call = NoCall
    /\ \E r \in {Apply("init", <<kind, values, number, spacing, format>>)} :
           /\ obj' = IF r.raised = "none" THEN kind ELSE "none"
           /\ Becomes(IF r.raised = "none" THEN r.self ELSE Blank)
           /\ raised' = r.raised
    /\ call' = Call("init", values, number, spacing, format, 0, 0)
    /\ ret' = NoReturn

\* x.values = values
SetValues(values) ==
    /\ obj # "none"
    /\ Becomes(values_setter(Self, values))
    /\ raised' = "none"
    /\ call' = Call("values", values, None, None, None, 0, 0)
    /\ ret' = NoReturn
    /\ UNCHANGED obj

\* x.number = number
SetNumber(number) ==
    /\ obj # "none"
    /\ Becomes(number_setter(Self, number))
    /\ raised' = "none"
    /\ call' = Call("number", None, number, None, None, 0, 0)
    /\ ret' = NoReturn
    /\ UNCHANGED obj

\* x.spacing = spacing
SetSpacing(spacing) ==
    /\ obj # "none"
    /\ LET r == spacing_setter(obj, Self, spacing)
       IN  /\ Becomes(r.self)
           /\ raised' = r.raised
    /\ call' = Call("spacing", None, None, spacing, None, 0, 0)
    /\ ret' = NoReturn
    /\ UNCHANGED obj

\* x.format = format
SetFormat(format) ==
    /\ obj # "none"
    /\ \E r \in {Apply("format_setter", <<obj, Self, format>>)} :
           /\ Becomes(r.self)
           /\ raised' = r.raised
    /\ call' = Call("format", None, None, None, format, 0, 0)
    /\ ret' = NoReturn
    /\ UNCHANGED obj

\* x.locator(value_min, value_max).  The model follows the calls that return
\* at most MaxTicks ticks.
Locate(value_min, value_max) ==
    /\ obj # "none"
    /\ Apply("arange_length", <<obj, Self, value_min, value_max>>) <= MaxTicks
    /\ \E r \in {Apply("locator", <<obj, Self, value_min, value_max>>)} :
           /\ ret' = r
           /\ raised' = r.raised
    /\ call' = Call("locator", None, None, None, None, value_min, value_max)
    /\ UNCHANGED <<obj, _values, _number, _spacing, _format,
                   _decimal, _unit, _fields, _precision>>

\* x.formatter(values, spacing) on what the locator has just returned
Format ==
    /\ obj # "none"
    /\ call.op = "locator"
    /\ raised = "none"
    /\ LET r == formatter(obj, Self, ret.values, ret.spacing[1])
       IN  /\ ret' = [ret EXCEPT !.raised = r.raised, !.labels = r.labels]
           /\ raised' = r.raised
    /\ call' = [call EXCEPT !.op = "formatter"]
    /\ UNCHANGED <<obj, _values, _number, _spacing, _format,
                   _decimal, _unit, _fields, _precision>>

Next ==
    \/ \E kind \in {k \in Kinds : obj = "none"} :
         \E values \in ValuesInputs(kind), number \in NumberInputs,
            spacing \in SpacingInputs(kind), format \in FormatInputs(kind) :
              Construct(kind, values, number, spacing, format)
    \/ \E values \in ValuesInputs(obj) : SetValues(values)
    \/ \E number \in NumberInputs : SetNumber(number)
    \/ \E spacing \in SpacingInputs(obj) : SetSpacing(spacing)
    \/ \E format \in FormatInputs(obj) : SetFormat(format)
    \/ \E range \in RangeInputs(obj) : Locate(range[1], range[2])
    \/ Format

Spec == Init /\ [][Next]_vars

\* ============================================================== properties
\* how many of values, number and spacing are set
ModesSet == Cardinality({i \in 1..3 : <<_values, _number, _spacing>>[i] # None})

\* how many of values, number and spacing the constructor call supplied
Supplied == Cardinality({i \in 1..3 : <<call.values, call.number, call.spacing>>[i] # None})

\* a format is set, the setter accepted it and its base spacing is defined
FormatInForce ==
    /\ obj # "none"
    /\ _format # None
    /\ Accepted(obj, _format[1])
    /\ base_spacing_raises(obj, Self) = "none"

\* the grid value g is at least the base spacing and a multiple of it
OnBase(g) ==
    g >= base_spacing(obj, Self).value /\ g % base_spacing(obj, Self).value = 0

\* C1: in both variants, after any constructor and setter calls, assigning
\* values leaves number and spacing unset, assigning number leaves values and
\* spacing unset, assigning spacing leaves values and number unset, and at most
\* one of the three is ever set.
C1_MutualExclusion ==
    /\ ModesSet <= 1
    /\ (call.op = "values" /\ raised = "none") =>
           (_values = call.values /\ _number = None /\ _spacing = None)
    /\ (call.op = "number" /\ raised = "none") =>
           (_number = call.number /\ _values = None /\ _spacing = None)
    /\ (call.op = "spacing" /\ raised = "none") =>
           /\ _values = None /\ _number = None
           /\ _spacing = call.spacing

\* a number was assigned and is the only mode set
C1_Witness == call.op = "number" /\ _number # None /\ ModesSet = 1

\* C2: whenever a format is set and explicit-spacing mode is active, the
\* stored spacing is at least the base spacing of the format and an exact
\* multiple of it, also when the spacing was assigned after the format.
C2_SpacingOnBase ==
    (FormatInForce /\ _spacing # None) => OnBase(_spacing[1].value)

\* round(a / b) for a >= 0, b > 0: to the nearest integer, halves to even
Round(a, b) ==
    LET q == a \div b
        r == a % b
    IN  IF 2 * r < b THEN q
        ELSE IF 2 * r > b THEN q + 1
        ELSE IF q % 2 = 0 THEN q ELSE q + 1

\* the spacing a successful format assignment should leave, by the claim, on
\* the grid
C3_Expected(spacing, base) ==
    IF spacing < base THEN base
    ELSE IF spacing % base # 0 THEN Round(spacing, base) * base
    ELSE spacing

\* C3: a format successfully assigned in explicit-spacing mode raises a
\* spacing below the new base spacing to the base spacing, rounds a spacing
\* that is not a multiple to round(spacing / base_spacing) * base_spacing, and
\* leaves a multiple unchanged.
C3_FormatRevalidation ==
    [][(/\ obj # "none"
        /\ _spacing # None
        /\ call'.op = "format"
        /\ raised' = "none"
        /\ call'.format # None)
       => /\ _spacing' # None
          /\ _spacing'[1].value =
                 C3_Expected(_spacing[1].value, base_spacing(obj, Self').value)]_vars

\* C4: with a format set, the spacing the locator returns in explicit-spacing
\* mode, and in desired-count mode when it is not taken from the external
\* selector, is at least the base spacing and a multiple of it, and so is
\* every returned tick a multiple of the base spacing.
C4_LocatedOnBase ==
    (/\ FormatInForce
     /\ call.op = "locator"
     /\ raised = "none"
     /\ _values = None
     /\ ret.selector = "none")
    => /\ OnBase(ret.spacing[1])
       /\ \A k \in 1..Len(ret.arange) :
              (ret.arange[k] * ret.spacing[1]) % base_spacing(obj, Self).value = 0

\* the grammars of the claim: the '.' is a literal full stop
GrammarSexagesimal(lead, v) ==
    LET f1 == <<lead, lead>>
        f2 == f1 \o <<":", "m", "m">>
        f3 == f2 \o <<":", "s", "s">>
    IN  \/ v \in {f1, f2, f3}
        \/ /\ Len(v) >= 10
           /\ SubSeq(v, 1, 9) = f3 \o <<".">>
           /\ \A i \in 10..Len(v) : v[i] = "s"

GrammarDecimal(c, v) ==
    \/ v = <<c>>
    \/ /\ Len(v) >= 3
       /\ v[1] = c
       /\ v[2] = "."
       /\ \A i \in 3..Len(v) : v[i] = c

Grammar(kind, v) ==
    IF kind = "angle"
    THEN \/ GrammarSexagesimal("d", v) \/ GrammarSexagesimal("h", v)
         \/ GrammarDecimal("d", v) \/ GrammarDecimal("m", v) \/ GrammarDecimal("s", v)
    ELSE GrammarDecimal("x", v)

\* C5: a format assignment succeeds only for strings of the recognized
\* grammar, so that an accepted format has 1 to 3 fields.
C5_OnlyGrammar ==
    (/\ obj # "none"
     /\ call.op \in {"init", "format"}
     /\ raised = "none"
     /\ call.format # None)
    => /\ Grammar(obj, call.format[1])
       /\ obj = "angle" => _fields[1] \in {1, 2, 3}

\* C6: in every state of an object exactly one of the three modes is set.
C6_ExactlyOneMode == obj # "none" => ModesSet = 1

\* the whole part of |x / y| for the floats x and y > 0, computed exactly, and
\* whether the quotient has a fraction
ExactQuotient(x, y) ==
    LET d == IF x.exp >= y.exp
             THEN Apply("BDivMod", <<x.man, y.man, x.exp - y.exp>>)
             ELSE Apply("BDivMod", <<x.man, Apply("BShl", <<y.man, y.exp - x.exp>>), 0>>)
    IN  IF x.man = <<>> THEN [n |-> 0, more |-> FALSE]
        ELSE [n |-> BInt(d.q), more |-> d.r # <<>>]

\* C7: outside explicit-values mode the locator returns, for the resolved
\* spacing s > 0, exactly the multiples i * s with ceil(min / s) <= i <=
\* floor(max / s), ascending and all inside [min, max], the empty sequence
\* when there is none; the formatter maps the empty sequence to the empty
\* sequence.  min, max and s are the floats of the call, the quotients are
\* exact and a multiple is the float product.
C7_Ticks ==
    /\ (call.op = "locator" /\ raised = "none" /\ _values = None) =>
           LET s == ret.spacing_deg[1]
               lo == Float(call.value_min, Unit(obj))
               hi == Float(call.value_max, Unit(obj))
               first == CeilOf(lo, ExactQuotient(lo, s))
               last == FloorOf(hi, ExactQuotient(hi, s))
           IN  /\ FGreater(s, Zero)
               /\ Len(ret.values) = IF first > last THEN 0 ELSE last - first + 1
               /\ \A k \in 1..Len(ret.values) : ret.values[k] = FMul(FInt(first + k - 1), s)
               /\ \A k \in 1..Len(ret.values) :
                      FCmp(lo, ret.values[k]) <= 0 /\ FCmp(ret.values[k], hi) <= 0
               /\ \A k \in 1..(Len(ret.values) - 1) : FLess(ret.values[k], ret.values[k + 1])
    /\ (call.op = "formatter" /\ ret.values = <<>>) =>
           (raised = "none" /\ ret.labels = <<>>)

\* C8: two or more of values, number and spacing raise the
\* configuration error and leave no object; exactly one activates that mode
\* with the given value; none activates desired count 5.
C8_AsClaimed ==
    call.op = "init" =>
        /\ Supplied >= 2 => (raised = "ValueError" /\ obj = "none")
        /\ (Supplied = 1 /\ raised = "none") =>
               /\ obj # "none"
               /\ _values = call.values
               /\ _number = call.number
               /\ _spacing = call.spacing
        /\ (Supplied = 0 /\ raised = "none") =>
               (obj # "none" /\ _number = Some(5) /\ _values = None /\ _spacing = None)

\* C9: in desired-count mode the angle locator calls the hour selector if and
\* only if the format currently set is a sexagesimal hour-angle format, and
\* the degree selector otherwise, also when no format is set.
C9_SelectorByFormat ==
    (obj = "angle" /\ call.op = "locator" /\ raised = "none" /\ ret.selector # "none")
    => (ret.selector = "hour" <=> (_format # None /\ HMS_RE(_format[1])))

\* C10: the stored format is unset or a string the setter accepts, and the
\* descriptor is the one parsed from the stored format.
C10_StoredFormatParsed ==
    (obj # "none" /\ _format # None) =>
        /\ Accepted(obj, _format[1])
        /\ LET parsed == format_parse(obj, Self, _format[1]).self
           IN  /\ _decimal = parsed._decimal
               /\ _unit = parsed._unit
               /\ _fields = parsed._fields
               /\ _precision = parsed._precision

====
